---- MODULE Spec2Model ----
(***************************************************************************)
(* CreateSaleDialog (src/components/inventory/CreateSaleDialog.tsx):       *)
(* a form that records a sale against stock derived from the purchase,     *)
(* sale and sales-return collections.                                      *)
(*                                                                         *)
(* Strings the code inspects character by character (sellPrice, unitPrice, *)
(* the raw quantity input) are sequences of one-character strings; ""      *)
(* is the empty sequence.  Strings the code only passes through            *)
(* (ids, names, status, customerName, notes) are TLA+ strings.             *)
(***************************************************************************)
EXTENDS Integers, Sequences, FiniteSets, TLC

VARIABLES
    products,       \* useProducts().products : the current product snapshot
    sales,          \* useSales().sales
    purchases,      \* usePurchases().purchases
    salesReturns,   \* useSalesReturns().salesReturns
    formData,       \* useState(...) form state
    open,           \* the `open` prop, owned by the parent
    calls           \* the callbacks the component invoked in the latest step

vars == <<products, sales, purchases, salesReturns, formData, open, calls>>

-----------------------------------------------------------------------------
(* Bounds and input domains                                                *)

\* Largest number of records the sales, purchases and returns snapshots hold
\* together while the dialog is in use.
MaxRecs == 1

\* Largest number of records the three collections hold together where the
\* stock formula is checked on arbitrary collections (StockSpec).
MaxStockRecs == 3

\* The product universe the snapshots are drawn from.  The second price
\* carries a currency sign at both ends, so that "every" sign matters.
Catalog ==
    { [id |-> "P1", name |-> "Widget", sellPrice |-> <<"$", "5">>],
      [id |-> "P2", name |-> "Gadget", sellPrice |-> <<"৳", "1", "2", "$">>] }

CatalogIds == {p.id : p \in Catalog}

\* Quantities carried by purchase / sale / return records.
RecQty == {1, 2}

\* Sale and purchase records (the fields the component reads).
Records == [productId : CatalogIds, quantity : RecQty]

\* Sales-return records.
ReturnRecords == [productId : CatalogIds, returnQuantity : RecQty]

\* While the dialog is in use, the records that come and go are those of
\* one product; the other product has no history and a stock of 0.
TradedIds == {"P1"}

TradedRecords == {r \in Records : r.productId \in TradedIds}
TradedReturnRecords == {r \in ReturnRecords : r.productId \in TradedIds}

\* The contents of the three collections holding at most max records together.
SnapshotsOf(recs, returnRecs, max) ==
    UNION { [1..a -> recs] \X [1..b -> recs] \X [1..c -> returnRecs] :
              <<a, b, c>> \in {t \in (0..max) \X (0..max) \X (0..max) :
                                  t[1] + t[2] + t[3] <= max} }

SeqsUpTo(S, n) == UNION {[1..k -> S] : k \in 0..n}

\* Raw values of the quantity <input>: "", "0", "1", "3", "-2", "2.5", "12", "x".
RawQuantities ==
    { <<>>, <<"0">>, <<"1">>, <<"3">>, <<"-", "2">>,
      <<"2", ".", "5">>, <<"1", "2">>, <<"x">> }

\* Raw values typed into the unit price <input>.
RawPrices == { <<>>, <<"9">> }

Statuses == {"Completed", "Pending", "Cancelled"}
TypedNames == {"", "Ann"}
TypedNotes == {"", "gift"}

-----------------------------------------------------------------------------
(* Pure helpers                                                            *)

Min(a, b) == IF a <= b THEN a ELSE b

DigitVal ==
    [c \in {"0", "1", "2", "3", "4", "5", "6", "7", "8", "9"} |->
        CASE c = "0" -> 0 [] c = "1" -> 1 [] c = "2" -> 2 [] c = "3" -> 3
          [] c = "4" -> 4 [] c = "5" -> 5 [] c = "6" -> 6 [] c = "7" -> 7
          [] c = "8" -> 8 [] c = "9" -> 9]

IsDigit(c) == c \in DOMAIN DigitVal

\* Length of the longest prefix of s[i..] made of digits.
RECURSIVE DigitRun(_, _)
DigitRun(s, i) ==
    IF i <= Len(s) /\ IsDigit(s[i]) THEN 1 + DigitRun(s, i + 1) ELSE 0

RECURSIVE DigitsValue(_, _, _, _)
DigitsValue(s, i, n, acc) ==
    IF n = 0 THEN acc
    ELSE DigitsValue(s, i + 1, n - 1, acc * 10 + DigitVal[s[i]])

RECURSIVE SkipSpace(_, _)
SkipSpace(s, i) ==
    IF i <= Len(s) /\ s[i] = " " THEN SkipSpace(s, i + 1) ELSE i

\* JavaScript parseInt(value) in radix 10: leading white space, an optional
\* sign, then the longest run of digits; NaN when there is no digit.
parseInt(s) ==
    LET i    == SkipSpace(s, 1)
        neg  == i <= Len(s) /\ s[i] = "-"
        j    == IF i <= Len(s) /\ s[i] \in {"-", "+"} THEN i + 1 ELSE i
        n    == DigitRun(s, j)
        v    == DigitsValue(s, j, n, 0)
    IN  IF n = 0 THEN [nan |-> TRUE, val |-> 0]
        ELSE [nan |-> FALSE, val |-> IF neg THEN 0 - v ELSE v]

\* Variant: only NaN falls back to 1 (`isNaN(x) ? 1 : x`).
OrOneOnlyNaN(x) == IF x.nan THEN 1 ELSE x.val

\* `x || 1` on a number: NaN and 0 are falsy.
OrOne(x) == IF x.nan \/ x.val = 0 THEN 1 ELSE x.val

\* Variant: replace without the g flag removes the first sign only.
RECURSIVE StripFirstCurrency(_)
StripFirstCurrency(s) ==
    IF s = <<>> THEN <<>>
    ELSE IF Head(s) \in {"$", "৳"} THEN Tail(s)
    ELSE <<Head(s)>> \o StripFirstCurrency(Tail(s))

\* sellPrice.replace(/[$৳]/g, '')
StripCurrency(s) == SelectSeq(s, LAMBDA c : c \notin {"$", "৳"})

\* products.find(p => p.id === id): the set holding the match, empty for
\* undefined (ids are unique within a snapshot).
find(ps, id) == {p \in ps : p.id = id}

The(S) == CHOOSE x \in S : TRUE

\* xs.filter(r => r.productId === productId)
FilterByProduct(xs, productId) == SelectSeq(xs, LAMBDA r : r.productId = productId)

\* xs.reduce((sum, r) => sum + r.quantity, 0)
RECURSIVE ReduceQuantity(_, _)
ReduceQuantity(xs, sum) ==
    IF xs = <<>> THEN sum
    ELSE ReduceQuantity(Tail(xs), sum + Head(xs).quantity)

\* xs.reduce((sum, r) => sum + r.returnQuantity, 0)
RECURSIVE ReduceReturnQuantity(_, _)
ReduceReturnQuantity(xs, sum) ==
    IF xs = <<>> THEN sum
    ELSE ReduceReturnQuantity(Tail(xs), sum + Head(xs).returnQuantity)

\* Variant: returns are left out of the stock.
getCalculatedStockNoReturns(productId) ==
    ReduceQuantity(FilterByProduct(purchases, productId), 0)
        - ReduceQuantity(FilterByProduct(sales, productId), 0)

getCalculatedStock(productId) ==
    LET productSales     == FilterByProduct(sales, productId)
        productPurchases == FilterByProduct(purchases, productId)
        productReturns   == FilterByProduct(salesReturns, productId)
        totalSold        == ReduceQuantity(productSales, 0)
        totalPurchased   == ReduceQuantity(productPurchases, 0)
        totalReturned    == ReduceReturnQuantity(productReturns, 0)
    IN  totalPurchased + totalReturned - totalSold

-----------------------------------------------------------------------------
(* Values derived on every render                                          *)

selectedProduct == find(products, formData.productId)

availableStock ==
    IF selectedProduct # {} THEN getCalculatedStock(The(selectedProduct).id) ELSE 0

\* Variant: the comparison is off by one.
isQuantityValidOffByOne == formData.quantity <= availableStock + 1

isQuantityValid == formData.quantity <= availableStock

\* disabled={!formData.productId || !formData.unitPrice || !isQuantityValid}
submitDisabled ==
    formData.productId = "" \/ formData.unitPrice = <<>> \/ ~isQuantityValid

\* Variant: the early return forgets the unit price.
submitRejectedNoPrice == selectedProduct = {} \/ ~isQuantityValid

\* The early return of handleSubmit.
submitRejected ==
    selectedProduct = {} \/ formData.unitPrice = <<>> \/ ~isQuantityValid

defaultFormData ==
    [ productId    |-> "",
      quantity     |-> 1,
      unitPrice    |-> <<>>,
      customerName |-> "",
      status       |-> "Completed",
      notes        |-> "" ]

-----------------------------------------------------------------------------
(* Callbacks                                                               *)

onOpenChangeCall(b) == [fn |-> "onOpenChange", arg |-> b]
onSaleCreatedCall(sale) == [fn |-> "onSaleCreated", sale |-> sale]

closeCall == onOpenChangeCall(FALSE)

-----------------------------------------------------------------------------
(* Number formatting of the emitted record.  The price strings of the      *)
(* model are whole numbers, for which parseFloat is the integer value and  *)
(* toFixed(2) appends ".00".                                               *)

DigitChar == <<"0", "1", "2", "3", "4", "5", "6", "7", "8", "9">>

RECURSIVE NatToChars(_)
NatToChars(n) ==
    IF n < 10 THEN <<DigitChar[n + 1]>>
    ELSE NatToChars(n \div 10) \o <<DigitChar[(n % 10) + 1]>>

\* n.toFixed(2) for a whole number n.
toFixed2(n) ==
    (IF n < 0 THEN <<"-">> \o NatToChars(0 - n) ELSE NatToChars(n))
        \o <<".", "0", "0">>

\* parseFloat(s) for the whole-number strings of the model.
parseFloat(s) == parseInt(s).val

\* const unitPrice = formData.unitPrice ? parseFloat(formData.unitPrice) : 0
unitPrice == IF formData.unitPrice # <<>> THEN parseFloat(formData.unitPrice) ELSE 0

totalAmount == unitPrice * formData.quantity

\* The Omit<Sale, 'id'> built by handleSubmit (the date, read from the
\* clock, is left out).
saleData ==
    [ productId    |-> formData.productId,
      productName  |-> The(selectedProduct).name,
      quantity     |-> formData.quantity,
      unitPrice    |-> toFixed2(parseFloat(formData.unitPrice)),
      totalAmount  |-> toFixed2(totalAmount),
      status       |-> formData.status,
      customerName |-> formData.customerName,
      notes        |-> formData.notes ]

-----------------------------------------------------------------------------
(* Initial state: the component is mounted with the dialog closed.         *)

Init ==
    /\ products = Catalog
    /\ sales = <<>>
    /\ purchases = <<>>
    /\ salesReturns = <<>>
    /\ formData = defaultFormData
    /\ open = FALSE
    /\ calls = <<>>

-----------------------------------------------------------------------------
(* Environment: the parent and the data hooks                              *)

\* The parent opens the dialog.
Reopen ==
    /\ ~open
    /\ open' = TRUE
    /\ calls' = <<>>
    /\ UNCHANGED <<products, sales, purchases, salesReturns, formData>>

\* A fresh product snapshot.
ProductsRefresh ==
    /\ \E ps \in (SUBSET Catalog) \ {products} : products' = ps
    /\ calls' = <<>>
    /\ UNCHANGED <<sales, purchases, salesReturns, formData, open>>

\* Fresh sales / purchases / returns snapshots: any content within the bound.
SalesRefresh ==
    /\ \E xs \in SeqsUpTo(TradedRecords, MaxRecs - Len(purchases) - Len(salesReturns)) \ {sales} :
          sales' = xs
    /\ calls' = <<>>
    /\ UNCHANGED <<products, purchases, salesReturns, formData, open>>

PurchasesRefresh ==
    /\ \E xs \in SeqsUpTo(TradedRecords, MaxRecs - Len(sales) - Len(salesReturns)) \ {purchases} :
          purchases' = xs
    /\ calls' = <<>>
    /\ UNCHANGED <<products, sales, salesReturns, formData, open>>

SalesReturnsRefresh ==
    /\ \E xs \in SeqsUpTo(TradedReturnRecords, MaxRecs - Len(sales) - Len(purchases)) \ {salesReturns} :
          salesReturns' = xs
    /\ calls' = <<>>
    /\ UNCHANGED <<products, sales, purchases, formData, open>>

-----------------------------------------------------------------------------
(* Handlers of the form; they exist only while the dialog is open          *)

\* The <Select> offers the ids of the current product snapshot.
handleProductChange(productId) ==
    /\ open
    /\ LET product == find(products, productId)
       IN  formData' =
             [formData EXCEPT
                !.productId = productId,
                !.unitPrice = IF product # {}
                              THEN StripCurrency(The(product).sellPrice)
                              ELSE <<>>,
                !.quantity  = 1]
    /\ calls' = <<>>
    /\ UNCHANGED <<products, sales, purchases, salesReturns, open>>

handleQuantityChange(value) ==
    /\ open
    /\ LET newQuantity == OrOne(parseInt(value))
       IN  formData' = [formData EXCEPT !.quantity = Min(newQuantity, availableStock)]
    /\ calls' = <<>>
    /\ UNCHANGED <<products, sales, purchases, salesReturns, open>>

unitPriceChange(value) ==
    /\ open
    /\ formData' = [formData EXCEPT !.unitPrice = value]
    /\ calls' = <<>>
    /\ UNCHANGED <<products, sales, purchases, salesReturns, open>>

customerNameChange(value) ==
    /\ open
    /\ formData' = [formData EXCEPT !.customerName = value]
    /\ calls' = <<>>
    /\ UNCHANGED <<products, sales, purchases, salesReturns, open>>

statusChange(value) ==
    /\ open
    /\ formData' = [formData EXCEPT !.status = value]
    /\ calls' = <<>>
    /\ UNCHANGED <<products, sales, purchases, salesReturns, open>>

notesChange(value) ==
    /\ open
    /\ formData' = [formData EXCEPT !.notes = value]
    /\ calls' = <<>>
    /\ UNCHANGED <<products, sales, purchases, salesReturns, open>>

\* Variant: a successful submit does not reset the form.
handleSubmitNoReset ==
    /\ open
    /\ IF submitRejected
       THEN /\ calls' = <<>>
            /\ UNCHANGED <<formData, open>>
       ELSE /\ calls' = <<onSaleCreatedCall(saleData), closeCall>>
            /\ open' = FALSE
            /\ UNCHANGED formData
    /\ UNCHANGED <<products, sales, purchases, salesReturns>>

handleSubmit ==
    /\ open
    /\ IF submitRejected
       THEN /\ calls' = <<>>
            /\ UNCHANGED <<formData, open>>
       ELSE /\ calls' = <<onSaleCreatedCall(saleData), closeCall>>
            /\ open' = FALSE
            /\ formData' = defaultFormData
    /\ UNCHANGED <<products, sales, purchases, salesReturns>>

\* Variant: cancel also resets the form.
cancelResets ==
    /\ open
    /\ calls' = <<closeCall>>
    /\ open' = FALSE
    /\ formData' = defaultFormData
    /\ UNCHANGED <<products, sales, purchases, salesReturns>>

\* The Cancel button: onClick={() => onOpenChange(false)}
cancel ==
    /\ open
    /\ calls' = <<closeCall>>
    /\ open' = FALSE
    /\ UNCHANGED <<products, sales, purchases, salesReturns, formData>>

SelectProduct == \E p \in products : handleProductChange(p.id)
TypeQuantity == \E value \in RawQuantities : handleQuantityChange(value)
TypeUnitPrice == \E value \in RawPrices : unitPriceChange(value)
TypeCustomerName == \E value \in TypedNames : customerNameChange(value)
PickStatus == \E value \in Statuses : statusChange(value)
TypeNotes == \E value \in TypedNotes : notesChange(value)

Next ==
    \/ Reopen
    \/ ProductsRefresh
    \/ SalesRefresh
    \/ PurchasesRefresh
    \/ SalesReturnsRefresh
    \/ SelectProduct
    \/ TypeQuantity
    \/ TypeUnitPrice
    \/ TypeCustomerName
    \/ PickStatus
    \/ TypeNotes
    \/ handleSubmit
    \/ cancel

Spec == Init /\ [][Next]_vars

-----------------------------------------------------------------------------
(* The stock formula on arbitrary collections: the dialog is open on any   *)
(* sales / purchases / returns content and the user selects products.      *)

StockInit ==
    /\ products = Catalog
    /\ \E t \in SnapshotsOf(Records, ReturnRecords, MaxStockRecs) :
          /\ sales = t[1]
          /\ purchases = t[2]
          /\ salesReturns = t[3]
    /\ formData = defaultFormData
    /\ open = TRUE
    /\ calls = <<>>

StockNext == SelectProduct

StockSpec == StockInit /\ [][StockNext]_vars

-----------------------------------------------------------------------------------------------------------------------------------------------------
(* handleProductChange and handleQuantityChange as functions of the form   *)
(* state, the snapshots and their argument: the dialog is open on any form *)
(* state over any snapshots, and the id handed to handleProductChange may  *)
(* be one the product snapshot no longer holds.                            *)

\* Without a selected product the stock is 0, so the quantity is the default
\* or a value clamped to at most 0.
FormStates ==
    { fd \in [ productId    : {""} \cup CatalogIds,
               quantity     : {0 - 2, 0, 1, 3},
               unitPrice    : RawPrices,
               customerName : TypedNames,
               status       : Statuses,
               notes        : TypedNotes ] :
        fd.productId = "" => fd.quantity <= 1 }

FormInit ==
    /\ products \in SUBSET Catalog
    /\ \E t \in SnapshotsOf(TradedRecords, TradedReturnRecords, MaxRecs) :
          /\ sales = t[1]
          /\ purchases = t[2]
          /\ salesReturns = t[3]
    /\ formData \in FormStates
    /\ open = TRUE
    /\ calls = <<>>

SelectAnyProduct == \E id \in CatalogIds : handleProductChange(id)

FormNext ==
    \/ SelectAnyProduct
    \/ TypeQuantity

FormSpec == FormInit /\ [][FormNext]_vars

-----
(* Properties                                                              *)

\* Stated without the operators of the model above, so that each property
\* is decided by the handlers and not by its own wording.

CurrencySigns == {"$", "৳"}

RECURSIVE WithoutSigns(_)
WithoutSigns(s) ==
    IF s = <<>> THEN <<>>
    ELSE IF Head(s) \in CurrencySigns THEN WithoutSigns(Tail(s))
    ELSE <<Head(s)>> \o WithoutSigns(Tail(s))

\* Sum of field f over the records of xs that belong to product P.
RECURSIVE SumFrom(_, _, _, _)
SumFrom(xs, P, f, i) ==
    IF i > Len(xs) THEN 0
    ELSE (IF xs[i].productId = P THEN xs[i][f] ELSE 0) + SumFrom(xs, P, f, i + 1)

Matches == {p \in products : p.id = formData.productId}

\* Stock of the selected product from the current snapshots, 0 without one.
StockNow ==
    IF Matches = {} THEN 0
    ELSE SumFrom(purchases, formData.productId, "quantity", 1)
           + SumFrom(salesReturns, formData.productId, "returnQuantity", 1)
           - SumFrom(sales, formData.productId, "quantity", 1)

SaleCalls == {i \in DOMAIN calls : calls[i].fn = "onSaleCreated"}

Defaults ==
    [ productId |-> "", quantity |-> 1, unitPrice |-> <<>>,
      customerName |-> "", status |-> "Completed", notes |-> "" ]

FieldNames == {"productId", "quantity", "unitPrice", "customerName", "status", "notes"}

\* C1: every sale record handed to onSaleCreated has a quantity of at least 1.
C1_EmittedQuantityAtLeastOne ==
    \A i \in SaleCalls : calls[i].sale.quantity >= 1

\* C2: while the selected product's stock is 0 the Record Sale button is
\* disabled, and no sale record is emitted for a product whose stock is 0
\* (the snapshots do not change in the submit step).
C2_ZeroStockNeverSubmits ==
    /\ (open /\ Matches # {} /\ StockNow = 0) => submitDisabled
    /\ \A i \in SaleCalls :
          SumFrom(purchases, calls[i].sale.productId, "quantity", 1)
            + SumFrom(salesReturns, calls[i].sale.productId, "returnQuantity", 1)
            - SumFrom(sales, calls[i].sale.productId, "quantity", 1) # 0

\* C3: a sale record is never emitted with a quantity above the stock its
\* product has in the snapshots current at the submit (the snapshots do not
\* change in the submit step).
C3_EmittedWithinCurrentStock ==
    \A i \in SaleCalls :
        calls[i].sale.quantity
            <= SumFrom(purchases, calls[i].sale.productId, "quantity", 1)
                 + SumFrom(salesReturns, calls[i].sale.productId, "returnQuantity", 1)
                 - SumFrom(sales, calls[i].sale.productId, "quantity", 1)

\* A record was emitted whose quantity is exactly the stock left.
C3_Witness ==
    \E i \in SaleCalls :
        /\ calls[i].sale.quantity = getCalculatedStock(calls[i].sale.productId)
        /\ calls[i].sale.quantity >= 2

\* C4: for every product id, getCalculatedStock is purchases plus returns
\* minus sales of that product; other products' records do not count and
\* the result is not clamped at 0.  The stock shown for the selected product
\* is that value.
C4_StockFormula ==
    /\ \A P \in CatalogIds \cup {"P0"} :
          getCalculatedStock(P)
            = SumFrom(purchases, P, "quantity", 1)
                + SumFrom(salesReturns, P, "returnQuantity", 1)
                - SumFrom(sales, P, "quantity", 1)
    /\ Matches # {} => availableStock = StockNow

\* A product is selected whose stock is negative although it was purchased,
\* next to a sale of another product.
C4_Witness ==
    /\ formData.productId = "P1"
    /\ availableStock < 0
    /\ \E i \in DOMAIN purchases : purchases[i].productId = "P1"
    /\ \E i \in DOMAIN sales : sales[i].productId = "P2"

\* parseInt(q) when that is a non-zero number, 1 otherwise.
ExpectedParsed ==
    [q \in RawQuantities |->
        IF ~parseInt(q).nan /\ parseInt(q).val # 0 THEN parseInt(q).val ELSE 1]

\* C5: handleQuantityChange(q) stores min(p, availableStock), p being
\* parseInt(q) when that is a non-zero number and 1 otherwise, and changes no
\* other field.
C5_QuantityClamped ==
    [][\A q \in RawQuantities :
          handleQuantityChange(q) =>
             \E p \in {ExpectedParsed[q]} : \E stock \in {StockNow} :
                 /\ formData'.quantity = (IF p <= stock THEN p ELSE stock)
                 /\ \A f \in FieldNames \ {"quantity"} : formData'[f] = formData[f]]_vars

\* The stored quantity was snapped down to a stock of 2 (typed "3" or "12").
C5_Witness ==
    /\ open
    /\ Matches # {}
    /\ StockNow = 2
    /\ formData.quantity = 2
    /\ calls = <<>>

\* C6: a submit with no matching product, or an empty unit price, or a
\* quantity above the stock calls nothing, leaves the dialog open and leaves
\* the form as it is.
C6_RejectedSubmitIsNoOp ==
    [][(handleSubmit /\ (Matches = {} \/ formData.unitPrice = <<>> \/ formData.quantity > StockNow))
          => (calls' = <<>> /\ open' = open /\ formData' = formData)]_vars

\* The dialog is open on a complete form whose stored quantity is above the
\* stock (the stock dropped after the quantity was typed).
C6_Witness ==
    /\ open
    /\ calls = <<>>
    /\ Matches # {}
    /\ formData.unitPrice # <<>>
    /\ formData.quantity > StockNow
    /\ formData.quantity >= 2

\* C7: a submit that passes the guard calls onSaleCreated once, with the
\* stored productId and quantity, the selected product's name and the status,
\* customerName and notes as they are, then onOpenChange(false); it leaves the
\* form at the defaults, where a further submit is rejected.
C7_SubmitEmitsOnceAndResets ==
    [][(handleSubmit /\ Matches # {} /\ formData.unitPrice # <<>> /\ formData.quantity <= StockNow)
          => /\ Len(calls') = 2
             /\ calls'[1].fn = "onSaleCreated"
             /\ calls'[1].sale.productId = formData.productId
             /\ calls'[1].sale.quantity = formData.quantity
             /\ calls'[1].sale.productName = (CHOOSE p \in Matches : TRUE).name
             /\ calls'[1].sale.status = formData.status
             /\ calls'[1].sale.customerName = formData.customerName
             /\ calls'[1].sale.notes = formData.notes
             /\ calls'[2] = [fn |-> "onOpenChange", arg |-> FALSE]
             /\ open' = FALSE
             /\ formData' = Defaults
             /\ submitRejected']_vars

\* A sale with a customer, a note and a non-default status was just emitted.
C7_Witness ==
    /\ ~open
    /\ formData = Defaults
    /\ \E i \in SaleCalls :
          /\ calls[i].sale.customerName = "Ann"
          /\ calls[i].sale.notes = "gift"
          /\ calls[i].sale.status = "Pending"
          /\ calls[i].sale.productName = "Widget"
          /\ calls[i].sale.quantity = 2

\* C8: handleProductChange(id) stores the id, quantity 1 and the product's
\* sellPrice without any '$' or '৳' (the empty string when no product has the
\* id), and leaves customerName, status and notes as they are.
C8_ProductChange ==
    [][\A id \in CatalogIds :
          handleProductChange(id) =>
             /\ formData'.productId = id
             /\ formData'.quantity = 1
             /\ formData'.unitPrice =
                  (IF \E p \in products : p.id = id
                   THEN WithoutSigns((CHOOSE p \in products : p.id = id).sellPrice)
                   ELSE <<>>)
             /\ formData'.customerName = formData.customerName
             /\ formData'.status = formData.status
             /\ formData'.notes = formData.notes]_vars

\* The product priced "৳12$" is selected over a form that held other text.
C8_Witness ==
    /\ formData.productId = "P2"
    /\ formData.quantity = 1
    /\ formData.unitPrice = <<"1", "2">>
    /\ formData.customerName = "Ann"
    /\ formData.status = "Cancelled"
    /\ \E p \in products : p.id = "P2"

NumDiffering(fd) == Cardinality({f \in FieldNames : fd[f] # Defaults[f]})

CancelKeepsForm ==
    /\ cancel =>
          /\ calls' = <<[fn |-> "onOpenChange", arg |-> FALSE]>>
          /\ formData' = formData
    /\ Reopen => formData' = formData

\* C9 as stated: cancel calls onOpenChange(false) only and keeps the form, and
\* no step but a successful submit brings the form back to its defaults.
C9_OnlySubmitRestoresDefaults ==
    [][/\ CancelKeepsForm
       /\ (formData # Defaults /\ formData' = Defaults)
             => \E i \in DOMAIN calls' : calls'[i].fn = "onSaleCreated"]_vars

\* C9 amended: cancel calls onOpenChange(false) only and keeps the form, and
\* no step but a successful submit brings a form that differs from the
\* defaults in more than one field back to the defaults.
C9_OnlySubmitResets ==
    [][/\ CancelKeepsForm
       /\ (NumDiffering(formData) >= 2 /\ formData' = Defaults)
             => \E i \in DOMAIN calls' : calls'[i].fn = "onSaleCreated"]_vars

\* The dialog was cancelled on a filled-in form, which is still there.
C9_Witness ==
    /\ ~open
    /\ calls = <<[fn |-> "onOpenChange", arg |-> FALSE]>>
    /\ formData.productId = "P1"
    /\ formData.quantity = 2
    /\ formData.notes = "gift"
    /\ formData.status = "Pending"

\* C10: while the dialog is open, the Record Sale button is enabled exactly
\* when handleSubmit would emit a record.
C10_ButtonMatchesGuard ==
    open => (~submitDisabled <=> ~submitRejected)

====
